---- MODULE Spec2Model ----
(***************************************************************************)
(* feedbot: the command layer (router, permission gate, command handlers)  *)
(* over the repository and the chat-platform directory / transport.        *)
(*                                                                         *)
(* Strings are taken apart with Len and SubSeq, a byte being a string of    *)
(* length one, so that prefix tests, slicing, splitting, the channel-       *)
(* mention regular expression and Atoi are computed as the Go code does.    *)
(***************************************************************************)
EXTENDS Integers, Sequences, FiniteSets, TLC

VARIABLES
    feeds,            \* repository: feed table, a sequence of URIs (ID = index)
    subs,             \* repository: subscription rows, id -> row
    nextID,           \* repository: next subscription id handed out
    gcfg,             \* repository: guild -> GuildConfig
    mentionPrefix,    \* package variable mentionPrefix
    mentionPrefixLen, \* package variable mentionPrefixLen
    owner,            \* package variable owner
    build,            \* which source variant of the router is compiled in
    crashed,          \* a runtime fault escaped a handler goroutine
    readyPC,          \* the line the goroutine running onReady is at
    inflight,         \* a dispatch between its prefix test and its slice
    last              \* the most recent event and what it did

vars == <<feeds, subs, nextID, gcfg, mentionPrefix, mentionPrefixLen, owner,
          build, crashed, readyPC, inflight, last>>

-----------------------------------------------------------------------------
(* Bounds *)

\* number of subscription ids the repository hands out in one run
MaxSubs == 2

\* number of rows drawn for a listing in SpecList
MaxRows == 3

-----------------------------------------------------------------------------------------------------------------------------------------------------
(* String helpers (Go: strings.HasPrefix, s[i:], s[i:j], strings.Split) *)

Digits == {"0", "1", "2", "3", "4", "5", "6", "7", "8", "9"}

\* the byte at 1-based position i, as a one-character string
Ch(s, i) == SubSeq(s, i, i)

DigitVal(c) ==
    CASE c = "0" -> 0 [] c = "1" -> 1 [] c = "2" -> 2 [] c = "3" -> 3
      [] c = "4" -> 4 [] c = "5" -> 5 [] c = "6" -> 6 [] c = "7" -> 7
      [] c = "8" -> 8 [] c = "9" -> 9

DigitChar(d) ==
    CASE d = 0 -> "0" [] d = 1 -> "1" [] d = 2 -> "2" [] d = 3 -> "3"
      [] d = 4 -> "4" [] d = 5 -> "5" [] d = 6 -> "6" [] d = 7 -> "7"
      [] d = 8 -> "8" [] d = 9 -> "9"

HasPrefix(s, p) == Len(p) <= Len(s) /\ SubSeq(s, 1, Len(p)) = p

\* s[i:] is defined for 0 <= i <= len(s); outside it Go panics
SliceFromOK(s, i) == i >= 0 /\ i <= Len(s)

\* s[i:] (0-based i)
SliceFrom(s, i) == SubSeq(s, i + 1, Len(s))

\* s[i:j] (0-based, j exclusive)
Slice(s, i, j) == SubSeq(s, i + 1, j)

\* strings.Split(s, sep) for a one-byte separator
RECURSIVE Split(_, _)
Split(s, sep) ==
    IF \A i \in 1..Len(s) : Ch(s, i) # sep
    THEN <<s>>
    ELSE LET k == CHOOSE i \in 1..Len(s) :
                      Ch(s, i) = sep /\ \A j \in 1..(i - 1) : Ch(s, j) # sep
         IN  <<SubSeq(s, 1, k - 1)>> \o Split(SubSeq(s, k + 1, Len(s)), sep)

\* channelRegex = `<#\d+>`, MatchString: the pattern occurs anywhere in s
channelRegex(s) ==
    \E i \in 1..Len(s) : \E j \in (i + 3)..Len(s) :
        /\ Ch(s, i) = "<"
        /\ Ch(s, i + 1) = "#"
        /\ \A k \in (i + 2)..(j - 1) : Ch(s, k) \in Digits
        /\ Ch(s, j) = ">"

RECURSIVE DecVal(_)
DecVal(ds) ==
    IF Len(ds) = 0 THEN 0
    ELSE 10 * DecVal(SubSeq(ds, 1, Len(ds) - 1)) + DigitVal(Ch(ds, Len(ds)))

\* strconv.Atoi: optional sign, then one or more decimal digits
Atoi(s) ==
    LET signed == Len(s) > 0 /\ Ch(s, 1) \in {"+", "-"}
        ds     == IF signed THEN SubSeq(s, 2, Len(s)) ELSE s
    IN  IF Len(ds) = 0 \/ \E i \in 1..Len(ds) : Ch(ds, i) \notin Digits
        THEN [ok |-> FALSE, val |-> 0]
        ELSE [ok |-> TRUE,
              val |-> IF signed /\ Ch(s, 1) = "-" THEN 0 - DecVal(ds) ELSE DecVal(ds)]

\* fmt %d
RECURSIVE Itoa(_)
Itoa(n) ==
    IF n < 0 THEN "-" \o Itoa(0 - n)
    ELSE IF n < 10 THEN DigitChar(n)
    ELSE Itoa(n \div 10) \o DigitChar(n % 10)

\* fmt %v of a bool
FmtV(b) == IF b THEN "true" ELSE "false"

-----------------------------------------------------------------------------
(* Program constants *)

\* discordgo.PermissionAdministrator
PermissionAdministrator == 8

prefix == "/feed:"

prefixLen == Len(prefix)

\* the verbs registered in mux (part_000)
mux == {"help", "add", "remove", "list", "set", "dbg~migrate"}

\* the verbs registered in mux (commands.go); every handler there is nil
muxStub == {"help", "add", "remove", "list", "set"}

adminOnly == "Sorry, feedbot requires the **ADMINISTRATOR** privilege!"

helpText == "\n**feedbot**\n\n**commands:**\n- help: print this message\n"

\* sql.NullBool values
NullBool(b, v) == [Bool |-> b, Valid |-> v]

-----
(* The platform directory: members, roles, permission bits *)

RECURSIVE BitAnd(_, _)
BitAnd(a, b) ==
    IF a = 0 \/ b = 0 THEN 0
    ELSE (a % 2) * (b % 2) + 2 * BitAnd(a \div 2, b \div 2)

Guilds == {"g1", "g2"}

\* the channel a guild's messages are sent in
HomeChannel(g) == IF g = "g1" THEN "10" ELSE "20"

\* the platform-reported owner of a guild
GuildOwner(g) == IF g = "g1" THEN "81" ELSE "82"

U_admin == "31"
U_mixed == "32"
U_plain == "33"
U_none == "34"
U_bot == "35"
U_operator == "99"
U_self == "57"

\* role id -> permission integer
RolePermissions(roleID) ==
    CASE roleID = "r_admin" -> 8        \* ADMINISTRATOR
      [] roleID = "r_send"  -> 2048     \* SEND_MESSAGES
      [] roleID = "r_kick"  -> 6        \* KICK_MEMBERS | BAN_MEMBERS
      [] roleID = "r_all"   -> 2062     \* the three above together

\* member -> role ids, in the order the directory reports them
MemberRoles(userID) ==
    CASE userID = U_admin    -> <<"r_admin">>
      [] userID = U_mixed    -> <<"r_send", "r_kick", "r_all">>
      [] userID = U_plain    -> <<"r_send", "r_kick">>
      [] userID = U_operator -> <<"r_send">>
      [] OTHER               -> <<>>

\* the outcome of every collaborator call of one dispatch
EnvOK ==
    [memberCached |-> TRUE, memberLive |-> TRUE, roleCached |-> TRUE,
     roleLive |-> TRUE, sendOK |-> TRUE, repoFail |-> "none", guildState |-> "ok"]

-----------------------------------------------------------------------------
(* Handler-local state: the repository tables plus what the dispatch did *)

St0(f, s, n, g) ==
    [feeds |-> f, subs |-> s, nextID |-> n, gcfg |-> g,
     replies |-> <<>>, err |-> "nil", calls |-> <<>>, gate |-> "none",
     pnc |-> FALSE]

Return(st, e) == [st EXCEPT !.err = e]

\* context.Reply: ChannelMessageSend to the source channel
Reply(ctx, st, text) ==
    IF ctx.env.sendOK
    THEN [st EXCEPT !.replies = Append(@, text), !.calls = Append(@, "Reply"),
                    !.err = "nil"]
    ELSE [st EXCEPT !.err = "ErrSend"]

-----------------------------------------------------------------------------
(* Permission gate *)

RECURSIVE rolesLoop(_, _, _)
rolesLoop(env, roles, permission) ==
    IF Len(roles) = 0 THEN [ok |-> FALSE, err |-> "nil"]
    ELSE IF ~env.roleCached THEN [ok |-> FALSE, err |-> "ErrStateNotFound"]
    ELSE IF BitAnd(RolePermissions(Head(roles)), permission) # 0
         THEN [ok |-> TRUE, err |-> "nil"]
    ELSE rolesLoop(env, Tail(roles), permission)

memberHasPermission(env, guildID, userID, permission) ==
    IF ~env.memberCached /\ ~env.memberLive
    THEN [ok |-> FALSE, err |-> "ErrGuildMember"]
    ELSE rolesLoop(env, MemberRoles(userID), permission)

\* returns [ok, st]; st.err carries the returned error, st.gate records ok
checkPrivilege(ctx, st) ==
    LET result(ok, s1) ==
            [ok |-> ok, st |-> [s1 EXCEPT !.gate = IF ok THEN "true" ELSE "false"]]
        replied(s1) ==
            IF s1.err # "nil" THEN result(FALSE, s1)
            ELSE result(TRUE, s1)
        checked(r) ==
            IF r.err # "nil" THEN result(FALSE, Return(st, r.err))
            ELSE IF ~r.ok THEN replied(Reply(ctx, st, adminOnly))
            ELSE result(TRUE, Return(st, "nil"))
    IN  checked(memberHasPermission(ctx.env, ctx.m.GuildID, ctx.m.Author.ID,
                                    PermissionAdministrator))

-----------------------------------------------------------------------------
(* The repository (Bot.c): each call yields [st, err, val] *)

Called(st, name) == [st EXCEPT !.calls = Append(@, name)]

Failing(ctx, name) == ctx.env.repoFail = name

NoSub == [ID |-> 0, GuildID |-> "", ChannelID |-> "", FeedID |-> 0,
          Embeds |-> NullBool(FALSE, FALSE), Webhooks |-> NullBool(FALSE, FALSE)]

FeedIDOf(fs, uri) == CHOOSE i \in 1..Len(fs) : fs[i] = uri

GetOrCreateFeed(ctx, st, uri) ==
    LET s1 == Called(st, "GetOrCreateFeed")
    IN  IF Failing(ctx, "GetOrCreateFeed")
        THEN [st |-> s1, err |-> "ErrInfra", val |-> 0]
        ELSE IF \E i \in 1..Len(st.feeds) : st.feeds[i] = uri
        THEN [st |-> s1, err |-> "nil", val |-> FeedIDOf(st.feeds, uri)]
        ELSE [st |-> [s1 EXCEPT !.feeds = Append(@, uri)], err |-> "nil",
              val |-> Len(st.feeds) + 1]

AddSubscription(ctx, st, channelID, guildID, feedID) ==
    LET s1  == Called(st, "AddSubscription")
        dup == {i \in DOMAIN st.subs :
                    /\ st.subs[i].ChannelID = channelID
                    /\ st.subs[i].GuildID = guildID
                    /\ st.subs[i].FeedID = feedID}
        new == [ID |-> st.nextID, GuildID |-> guildID, ChannelID |-> channelID,
                FeedID |-> feedID, Embeds |-> NullBool(FALSE, FALSE),
                Webhooks |-> NullBool(FALSE, FALSE)]
    IN  IF Failing(ctx, "AddSubscription")
        THEN [st |-> s1, err |-> "ErrInfra", val |-> NoSub]
        ELSE IF dup # {}
        THEN [st |-> s1, err |-> "ErrSubExists",
              val |-> st.subs[CHOOSE i \in dup : TRUE]]
        ELSE [st |-> [s1 EXCEPT !.subs = [i \in DOMAIN st.subs \cup {st.nextID} |->
                                             IF i = st.nextID THEN new ELSE st.subs[i]],
                                !.nextID = @ + 1],
              err |-> "nil", val |-> new]

GetSubscription(ctx, st, id) ==
    LET s1 == Called(st, "GetSubscription")
    IN  IF Failing(ctx, "GetSubscription")
        THEN [st |-> s1, err |-> "ErrInfra", val |-> NoSub]
        ELSE IF id \notin DOMAIN st.subs
        THEN [st |-> s1, err |-> "ErrNoRows", val |-> NoSub]
        ELSE [st |-> s1, err |-> "nil", val |-> st.subs[id]]

DestroySubscription(ctx, st, id) ==
    LET s1 == Called(st, "DestroySubscription")
    IN  IF Failing(ctx, "DestroySubscription")
        THEN [st |-> s1, err |-> "ErrInfra"]
        ELSE [st |-> [s1 EXCEPT !.subs = [i \in DOMAIN st.subs \ {id} |-> st.subs[i]]],
              err |-> "nil"]

\* an UPDATE of one column of one row; no row, no change
ModifySub(ctx, st, name, id, field, v) ==
    LET s1 == Called(st, name)
    IN  IF Failing(ctx, name) THEN [st |-> s1, err |-> "ErrInfra"]
        ELSE IF id \notin DOMAIN st.subs THEN [st |-> s1, err |-> "nil"]
        ELSE [st |-> [s1 EXCEPT !.subs[id][field] = v], err |-> "nil"]

ModifySubscriptionChannel(ctx, st, id, channelID) ==
    ModifySub(ctx, st, "ModifySubscriptionChannel", id, "ChannelID", channelID)

ModifyOverwriteEmbeds(ctx, st, id, val) ==
    ModifySub(ctx, st, "ModifyOverwriteEmbeds", id, "Embeds", val)

ModifyOverwriteWebhooks(ctx, st, id, val) ==
    ModifySub(ctx, st, "ModifyOverwriteWebhooks", id, "Webhooks", val)

ModifyGuild(ctx, st, name, guildID, field, v) ==
    LET s1 == Called(st, name)
    IN  IF Failing(ctx, name) THEN [st |-> s1, err |-> "ErrInfra"]
        ELSE [st |-> [s1 EXCEPT !.gcfg[guildID][field] = v], err |-> "nil"]

ModifyGuildContact(ctx, st, guildID, contact) ==
    ModifyGuild(ctx, st, "ModifyGuildContact", guildID, "Contact", contact)

ModifyGuildEmbeds(ctx, st, guildID, b) ==
    ModifyGuild(ctx, st, "ModifyGuildEmbeds", guildID, "Embeds", b)

ModifyGuildWebhooks(ctx, st, guildID, b) ==
    ModifyGuild(ctx, st, "ModifyGuildWebhooks", guildID, "Webhooks", b)

CreateGuildConfig(ctx, st, guildID, contact) ==
    ModifyGuild(ctx, st, "CreateGuildConfig", guildID, "Contact", contact)

GetGuildConfig(ctx, st, guildID) ==
    LET s1 == Called(st, "GetGuildConfig")
    IN  IF Failing(ctx, "GetGuildConfig")
        THEN [st |-> s1, err |-> "ErrInfra", val |-> st.gcfg[guildID]]
        ELSE [st |-> s1, err |-> "nil", val |-> st.gcfg[guildID]]

RECURSIVE SortedIDs(_)
SortedIDs(ids) ==
    IF ids = {} THEN <<>>
    ELSE LET m == CHOOSE i \in ids : \A j \in ids : i <= j
         IN  <<m>> \o SortedIDs(ids \ {m})

\* rows of one guild in id order, each with its Feed joined in
GetSubscriptions(ctx, st, guildID) ==
    LET s1  == Called(st, "GetSubscriptions")
        ids == SortedIDs({i \in DOMAIN st.subs : st.subs[i].GuildID = guildID})
    IN  IF Failing(ctx, "GetSubscriptions")
        THEN [st |-> s1, err |-> "ErrInfra", val |-> <<>>]
        ELSE [st |-> s1, err |-> "nil",
              val |-> [k \in 1..Len(ids) |->
                          [ID |-> ids[k],
                           ChannelID |-> st.subs[ids[k]].ChannelID,
                           URI |-> st.feeds[st.subs[ids[k]].FeedID],
                           Embeds |-> st.subs[ids[k]].Embeds,
                           Webhooks |-> st.subs[ids[k]].Webhooks]]]

\* the effective value of a setting: the override when it is definite, else
\* the guild default
resolve(override, default) == IF override.Valid THEN override.Bool ELSE default

MutatingCalls ==
    {"GetOrCreateFeed", "AddSubscription", "DestroySubscription",
     "ModifySubscriptionChannel", "ModifyOverwriteEmbeds", "ModifyOverwriteWebhooks",
     "ModifyGuildContact", "ModifyGuildEmbeds", "ModifyGuildWebhooks",
     "CreateGuildConfig"}

-----------------------------------------------------------------------------
(* Command handlers (part_000).  ctx = [m, args, env]; each handler maps the *)
(* handler-local state to the state at its return, st.err being the error   *)
(* it returns.  A backquote of a Go literal is written ' (a string of this  *)
(* notation cannot hold one); lengths are the same.                         *)

help(ctx, st) == Reply(ctx, st, helpText)

\* add, except that the channel argument is not used
add_ignoreChannel(ctx, st0) ==
    LET l == Len(ctx.args)
        added(a) ==
            IF a.err = "ErrSubExists"
            THEN Reply(ctx, a.st, "this subscription (#" \o Itoa(a.val.ID)
                                      \o ") already exists!")
            ELSE IF a.err # "nil" THEN Return(a.st, a.err)
            ELSE Reply(ctx, a.st, "subscription #" \o Itoa(a.val.ID) \o " created!")
        found(f, channel) ==
            IF f.err # "nil" THEN Return(f.st, f.err)
            ELSE added(AddSubscription(ctx, f.st, channel, ctx.m.GuildID, f.val))
        gated(p) ==
            IF p.st.err # "nil" THEN p.st
            ELSE IF ~p.ok THEN Return(p.st, "nil")
            ELSE IF l < 1 \/ l > 2
            THEN Reply(ctx, p.st, "**usage:** 'add <uri> [channel]'; please omit spaces from arguments!")
            ELSE IF l = 2 /\ ~channelRegex(ctx.args[2])
            THEN Reply(ctx, p.st, "when specifying a channel ID, please use a #channel mention!")
            ELSE found(GetOrCreateFeed(ctx, p.st, ctx.args[1]), ctx.m.ChannelID)
    IN  gated(checkPrivilege(ctx, st0))

\* add, except that an existing subscription is reported as a new one
add_existsAsCreated(ctx, st0) ==
    LET l == Len(ctx.args)
        added(a) ==
            IF a.err # "nil" /\ a.err # "ErrSubExists" THEN Return(a.st, a.err)
            ELSE Reply(ctx, a.st, "subscription #" \o Itoa(a.val.ID) \o " created!")
        found(f, channel) ==
            IF f.err # "nil" THEN Return(f.st, f.err)
            ELSE added(AddSubscription(ctx, f.st, channel, ctx.m.GuildID, f.val))
        gated(p) ==
            IF p.st.err # "nil" THEN p.st
            ELSE IF ~p.ok THEN Return(p.st, "nil")
            ELSE IF l < 1 \/ l > 2
            THEN Reply(ctx, p.st, "**usage:** 'add <uri> [channel]'; please omit spaces from arguments!")
            ELSE IF l = 2 /\ ~channelRegex(ctx.args[2])
            THEN Reply(ctx, p.st, "when specifying a channel ID, please use a #channel mention!")
            ELSE found(GetOrCreateFeed(ctx, p.st, ctx.args[1]),
                       IF l = 2
                       THEN Slice(ctx.args[2], 2, Len(ctx.args[2]) - 1)
                       ELSE ctx.m.ChannelID)
    IN  gated(checkPrivilege(ctx, st0))

\* add <uri> [channel]
add(ctx, st0) ==
    LET l == Len(ctx.args)
        added(a) ==
            IF a.err = "ErrSubExists"
            THEN Reply(ctx, a.st, "this subscription (#" \o Itoa(a.val.ID)
                                      \o ") already exists!")
            ELSE IF a.err # "nil" THEN Return(a.st, a.err)
            ELSE Reply(ctx, a.st, "subscription #" \o Itoa(a.val.ID) \o " created!")
        found(f, channel) ==
            IF f.err # "nil" THEN Return(f.st, f.err)
            ELSE added(AddSubscription(ctx, f.st, channel, ctx.m.GuildID, f.val))
        gated(p) ==
            IF p.st.err # "nil" THEN p.st
            ELSE IF ~p.ok THEN Return(p.st, "nil")
            ELSE IF l < 1 \/ l > 2
            THEN Reply(ctx, p.st, "**usage:** 'add <uri> [channel]'; please omit spaces from arguments!")
            ELSE IF l = 2 /\ ~channelRegex(ctx.args[2])
            THEN Reply(ctx, p.st, "when specifying a channel ID, please use a #channel mention!")
            ELSE found(GetOrCreateFeed(ctx, p.st, ctx.args[1]),
                       IF l = 2
                       THEN Slice(ctx.args[2], 2, Len(ctx.args[2]) - 1)
                       ELSE ctx.m.ChannelID)
    IN  gated(checkPrivilege(ctx, st0))

\* remove, except that the subscription's guild is not compared
remove_noGuildCheck(ctx, st0) ==
    LET got(g, id) ==
            IF g.err = "ErrNoRows"
            THEN Reply(ctx, g.st, "could not find a subscription with that ID, check the list again?")
            ELSE IF g.err # "nil" THEN Return(g.st, g.err)
            ELSE Reply(ctx, DestroySubscription(ctx, g.st, id).st,
                       "subscription #" \o Itoa(id) \o " has been deleted.")
        parsed(st, n) ==
            IF ~n.ok THEN Reply(ctx, st, "'id' must be a number!")
            ELSE got(GetSubscription(ctx, st, n.val), n.val)
        gated(p) ==
            IF p.st.err # "nil" THEN p.st
            ELSE IF ~p.ok THEN Return(p.st, "nil")
            ELSE IF Len(ctx.args) # 1
            THEN Reply(ctx, p.st, "**usage:** 'remove <id>'; please omit spaces from arguments?!")
            ELSE parsed(p.st, Atoi(ctx.args[1]))
    IN  gated(checkPrivilege(ctx, st0))

\* remove <id>
remove(ctx, st0) ==
    LET got(g, id) ==
            IF g.err = "ErrNoRows"
            THEN Reply(ctx, g.st, "could not find a subscription with that ID, check the list again?")
            ELSE IF g.err # "nil" THEN Return(g.st, g.err)
            ELSE IF g.val.GuildID # ctx.m.GuildID
            THEN Reply(ctx, g.st, "subscription #" \o Itoa(id)
                                      \o " does not exist in this guild.")
            \* err = DestroySubscription(id) is overwritten by Reply's result
            ELSE Reply(ctx, DestroySubscription(ctx, g.st, id).st,
                       "subscription #" \o Itoa(id) \o " has been deleted.")
        parsed(st, n) ==
            IF ~n.ok THEN Reply(ctx, st, "'id' must be a number!")
            ELSE got(GetSubscription(ctx, st, n.val), n.val)
        gated(p) ==
            IF p.st.err # "nil" THEN p.st
            ELSE IF ~p.ok THEN Return(p.st, "nil")
            ELSE IF Len(ctx.args) # 1
            THEN Reply(ctx, p.st, "**usage:** 'remove <id>'; please omit spaces from arguments?!")
            ELSE parsed(p.st, Atoi(ctx.args[1]))
    IN  gated(checkPrivilege(ctx, st0))

fmtBool(v) ==
    IF ~v.Valid THEN "inherit"
    ELSE IF v.Bool THEN "on"
    ELSE "false"

\* the flush threshold of list
listFlushLen == 1900

listHeader(gc) ==
    "**Guild Contact:** '" \o gc.Contact \o "'\n**Embeds?** " \o FmtV(gc.Embeds)
        \o "\n**Webhooks?** " \o FmtV(gc.Webhooks) \o "\n\n"
        \o "**Sub ID | Channel | Feed URI | Embed? | Webhook?\n\n**"

listRow(s) ==
    Itoa(s.ID) \o " | <#" \o s.ChannelID \o "> | '" \o s.URI \o "' | "
        \o fmtBool(s.Embeds) \o " | " \o fmtBool(s.Webhooks) \o "\n"

\* listLoop, except that the builder is not reset after a flush
RECURSIVE listLoop_keepBuffer(_, _, _, _)
listLoop_keepBuffer(ctx, st, rows, b) ==
    IF Len(rows) = 0 THEN Reply(ctx, st, b)
    ELSE LET flushed(r, b1) ==
                 IF r.err # "nil" THEN r
                 ELSE listLoop_keepBuffer(ctx, r, Tail(rows), b1)
             written(b1) ==
                 IF Len(b1) > listFlushLen
                 THEN flushed(Reply(ctx, st, b1), b1)
                 ELSE listLoop_keepBuffer(ctx, st, Tail(rows), b1)
         IN  written(b \o listRow(Head(rows)))

\* the range loop of list over the rows left, b the builder's content
RECURSIVE listLoop(_, _, _, _)
listLoop(ctx, st, rows, b) ==
    IF Len(rows) = 0 THEN Reply(ctx, st, b)
    ELSE LET flushed(r) ==
                 IF r.err # "nil" THEN r
                 ELSE listLoop(ctx, r, Tail(rows), "")
             written(b1) ==
                 IF Len(b1) > listFlushLen
                 THEN flushed(Reply(ctx, st, b1))
                 ELSE listLoop(ctx, st, Tail(rows), b1)
         IN  written(b \o listRow(Head(rows)))

\* list
list(ctx, st0) ==
    LET rows(ss, gc) ==
            IF ss.err # "nil" THEN Return(ss.st, ss.err)
            ELSE listLoop(ctx, ss.st, ss.val, listHeader(gc))
        config(gc) ==
            IF gc.err # "nil" THEN Return(gc.st, gc.err)
            ELSE rows(GetSubscriptions(ctx, gc.st, ctx.m.GuildID), gc.val)
        gated(p) ==
            IF p.st.err # "nil" THEN p.st
            ELSE IF ~p.ok THEN Return(p.st, "nil")
            ELSE config(GetGuildConfig(ctx, p.st, ctx.m.GuildID))
    IN  gated(checkPrivilege(ctx, st0))

\* set channel <id> [channel]
setChannel(ctx, st) ==
    LET wrote(w, id, channelID) ==
            IF w.err # "nil" THEN Return(w.st, w.err)
            ELSE Reply(ctx, w.st, "subscription #" \o Itoa(id)
                                      \o " will now write to <#" \o channelID \o ">")
        got(g, id, channelID) ==
            IF g.err = "ErrNoRows"
            THEN Reply(ctx, g.st, "could not find a subscription with that ID, check the list again?")
            ELSE IF g.err # "nil" THEN Return(g.st, g.err)
            ELSE IF g.val.GuildID # ctx.m.GuildID
            THEN Reply(ctx, g.st, "subscription #" \o Itoa(id)
                                      \o " does not exist in this guild.")
            ELSE wrote(ModifySubscriptionChannel(ctx, g.st, id, channelID), id, channelID)
        parsed(n, channelID) ==
            IF ~n.ok THEN Reply(ctx, st, "'id' must be a number!")
            ELSE got(GetSubscription(ctx, st, n.val), n.val, channelID)
    IN  IF Len(ctx.args) < 2
        THEN Reply(ctx, st, "**usage:** 'set channel <id> [channel]'; please omit spaces from arguments?!")
        ELSE IF Len(ctx.args) = 3 /\ ~channelRegex(ctx.args[3])
        THEN Reply(ctx, st, "when specifying a channel ID, please use a #channel mention!")
        ELSE parsed(Atoi(ctx.args[2]),
                    IF Len(ctx.args) = 3
                    THEN Slice(ctx.args[3], 2, Len(ctx.args[3]) - 1)
                    ELSE ctx.m.ChannelID)

\* set contact <user|channel>
setContact(ctx, st) ==
    LET wrote(w) ==
            IF w.err # "nil" THEN Return(w.st, w.err)
            ELSE Reply(ctx, w.st, "the guild's contact has been changed.")
        contact(arg) ==
            IF channelRegex(arg)
            THEN wrote(ModifyGuildContact(ctx, st, ctx.m.GuildID,
                                          "c:" \o Slice(arg, 2, Len(arg) - 1)))
            ELSE IF Len(ctx.m.Mentions) > 0
            THEN wrote(ModifyGuildContact(ctx, st, ctx.m.GuildID,
                                          "u:" \o ctx.m.Mentions[1]))
            ELSE IF Atoi(arg).ok
            THEN wrote(ModifyGuildContact(ctx, st, ctx.m.GuildID, "u:" \o arg))
            ELSE Reply(ctx, st, "contact must be a user mention, user id, or channel mention; not a user name or channel name.")
    IN  IF Len(ctx.args) # 2
        THEN Reply(ctx, st, "**usage:** 'set contact <user|channel>'; please use a user mention, user id, or channel mention, and omit spaces.")
        ELSE contact(ctx.args[2])

\* the on|off|inherit parser of setEmbed and setWebhook
parseTri(a) ==
    IF a = "on" THEN [ok |-> TRUE, val |-> NullBool(TRUE, TRUE)]
    ELSE IF a = "off" THEN [ok |-> TRUE, val |-> NullBool(FALSE, TRUE)]
    ELSE IF a = "inherit" THEN [ok |-> TRUE, val |-> NullBool(FALSE, FALSE)]
    ELSE [ok |-> FALSE, val |-> NullBool(FALSE, FALSE)]

\* setEmbed, except that inherit is not refused for the guild-wide default
setEmbed_guildInherit(ctx, st) ==
    LET done(s, val) ==
            IF val.Bool
            THEN Reply(ctx, s, "feedbot will now post updates in this guild using embeds, unless overridden elsewhere.")
            ELSE IF val.Valid
            THEN Reply(ctx, s, "feedbot will no longer post updates in this guild using embeds, unless overridden elsewhere.")
            ELSE Reply(ctx, s, "feedbot will default to the guild-wide behavior for embeds.")
        wrote(w, val) ==
            IF w.err # "nil" THEN Return(w.st, w.err) ELSE done(w.st, val)
        got(g, id, val) ==
            IF g.err = "ErrNoRows"
            THEN Reply(ctx, g.st, "could not find a subscription with that ID, check the list again?")
            ELSE IF g.err # "nil" THEN Return(g.st, g.err)
            ELSE IF g.val.GuildID # ctx.m.GuildID
            THEN Reply(ctx, g.st, "subscription #" \o Itoa(id)
                                      \o " does not exist in this guild.")
            ELSE wrote(ModifyOverwriteEmbeds(ctx, g.st, g.val.ID, val), val)
        parsedID(n, val) ==
            IF ~n.ok THEN Reply(ctx, st, "'id' must be a number!")
            ELSE got(GetSubscription(ctx, st, n.val), n.val, val)
        parsed(t) ==
            IF ~t.ok THEN Reply(ctx, st, "parameter must be one of on|off")
            ELSE IF Len(ctx.args) = 2
            THEN wrote(ModifyGuildEmbeds(ctx, st, ctx.m.GuildID, t.val.Bool), t.val)
            ELSE parsedID(Atoi(ctx.args[3]), t.val)
    IN  IF Len(ctx.args) < 2
        THEN Reply(ctx, st, "**usage:** 'set embed <on|off|inherit> [id]'")
        ELSE parsed(parseTri(ctx.args[2]))

\* set embed <on|off|inherit> [id]
setEmbed(ctx, st) ==
    LET done(s, val) ==
            IF val.Bool
            THEN Reply(ctx, s, "feedbot will now post updates in this guild using embeds, unless overridden elsewhere.")
            ELSE IF val.Valid
            THEN Reply(ctx, s, "feedbot will no longer post updates in this guild using embeds, unless overridden elsewhere.")
            ELSE Reply(ctx, s, "feedbot will default to the guild-wide behavior for embeds.")
        wrote(w, val) ==
            IF w.err # "nil" THEN Return(w.st, w.err) ELSE done(w.st, val)
        got(g, id, val) ==
            IF g.err = "ErrNoRows"
            THEN Reply(ctx, g.st, "could not find a subscription with that ID, check the list again?")
            ELSE IF g.err # "nil" THEN Return(g.st, g.err)
            ELSE IF g.val.GuildID # ctx.m.GuildID
            THEN Reply(ctx, g.st, "subscription #" \o Itoa(id)
                                      \o " does not exist in this guild.")
            ELSE wrote(ModifyOverwriteEmbeds(ctx, g.st, g.val.ID, val), val)
        parsedID(n, val) ==
            IF ~n.ok THEN Reply(ctx, st, "'id' must be a number!")
            ELSE got(GetSubscription(ctx, st, n.val), n.val, val)
        parsed(t) ==
            IF ~t.ok THEN Reply(ctx, st, "parameter must be one of on|off")
            ELSE IF Len(ctx.args) = 2
            THEN IF ~t.val.Valid
                 THEN Reply(ctx, st, "'inherit' is only a valid flag on overwrites, please specify on|off")
                 ELSE wrote(ModifyGuildEmbeds(ctx, st, ctx.m.GuildID, t.val.Bool), t.val)
            ELSE parsedID(Atoi(ctx.args[3]), t.val)
    IN  IF Len(ctx.args) < 2
        THEN Reply(ctx, st, "**usage:** 'set embed <on|off|inherit> [id]'")
        ELSE parsed(parseTri(ctx.args[2]))

\* setWebhook, except that the overwrite is written to the embeds column
setWebhook_writesEmbeds(ctx, st) ==
    LET done(s, val) ==
            IF val.Bool
            THEN Reply(ctx, s, "feedbot will now post updates in this guild using webhooks, unless overridden elsewhere.")
            ELSE IF val.Valid
            THEN Reply(ctx, s, "feedbot will no longer post updates in this guild using webhooks, unless overridden elsewhere.")
            ELSE Reply(ctx, s, "feedbot will default to the guild-wide behavior for webhooks.")
        wrote(w, val) ==
            IF w.err # "nil" THEN Return(w.st, w.err) ELSE done(w.st, val)
        got(g, id, val) ==
            IF g.err = "ErrNoRows"
            THEN Reply(ctx, g.st, "could not find a subscription with that ID, check the list again?")
            ELSE IF g.err # "nil" THEN Return(g.st, g.err)
            ELSE IF g.val.GuildID # ctx.m.GuildID
            THEN Reply(ctx, g.st, "subscription #" \o Itoa(id)
                                      \o " does not exist in this guild.")
            ELSE wrote(ModifyOverwriteEmbeds(ctx, g.st, g.val.ID, val), val)
        parsedID(n, val) ==
            IF ~n.ok THEN Reply(ctx, st, "'id' must be a number!")
            ELSE got(GetSubscription(ctx, st, n.val), n.val, val)
        parsed(t) ==
            IF ~t.ok THEN Reply(ctx, st, "parameter must be one of on|off")
            ELSE IF Len(ctx.args) = 2
            THEN IF ~t.val.Valid
                 THEN Reply(ctx, st, "'inherit' is only a valid flag on overwrites, please specify on|off")
                 ELSE wrote(ModifyGuildWebhooks(ctx, st, ctx.m.GuildID, t.val.Bool), t.val)
            ELSE parsedID(Atoi(ctx.args[3]), t.val)
    IN  IF Len(ctx.args) < 2
        THEN Reply(ctx, st, "**usage:** 'set webhook <on|off> [id]'")
        ELSE parsed(parseTri(ctx.args[2]))

\* set webhook <on|off> [id]
setWebhook(ctx, st) ==
    LET done(s, val) ==
            IF val.Bool
            THEN Reply(ctx, s, "feedbot will now post updates in this guild using webhooks, unless overridden elsewhere.")
            ELSE IF val.Valid
            THEN Reply(ctx, s, "feedbot will no longer post updates in this guild using webhooks, unless overridden elsewhere.")
            ELSE Reply(ctx, s, "feedbot will default to the guild-wide behavior for webhooks.")
        wrote(w, val) ==
            IF w.err # "nil" THEN Return(w.st, w.err) ELSE done(w.st, val)
        got(g, id, val) ==
            IF g.err = "ErrNoRows"
            THEN Reply(ctx, g.st, "could not find a subscription with that ID, check the list again?")
            ELSE IF g.err # "nil" THEN Return(g.st, g.err)
            ELSE IF g.val.GuildID # ctx.m.GuildID
            THEN Reply(ctx, g.st, "subscription #" \o Itoa(id)
                                      \o " does not exist in this guild.")
            ELSE wrote(ModifyOverwriteWebhooks(ctx, g.st, g.val.ID, val), val)
        parsedID(n, val) ==
            IF ~n.ok THEN Reply(ctx, st, "'id' must be a number!")
            ELSE got(GetSubscription(ctx, st, n.val), n.val, val)
        parsed(t) ==
            IF ~t.ok THEN Reply(ctx, st, "parameter must be one of on|off")
            ELSE IF Len(ctx.args) = 2
            THEN IF ~t.val.Valid
                 THEN Reply(ctx, st, "'inherit' is only a valid flag on overwrites, please specify on|off")
                 ELSE wrote(ModifyGuildWebhooks(ctx, st, ctx.m.GuildID, t.val.Bool), t.val)
            ELSE parsedID(Atoi(ctx.args[3]), t.val)
    IN  IF Len(ctx.args) < 2
        THEN Reply(ctx, st, "**usage:** 'set webhook <on|off> [id]'")
        ELSE parsed(parseTri(ctx.args[2]))

\* set <channel|contact|embed|webhook> [...]
set(ctx, st0) ==
    LET gated(p) ==
            IF p.st.err # "nil" THEN p.st
            ELSE IF ~p.ok THEN Return(p.st, "nil")
            ELSE IF Len(ctx.args) = 0
            THEN Reply(ctx, p.st, "**usage:** set <channel|contact|embed|webhook> ..., see help command.")
            ELSE CASE ctx.args[1] = "channel" -> setChannel(ctx, p.st)
                   [] ctx.args[1] = "contact" -> setContact(ctx, p.st)
                   [] ctx.args[1] = "embed"   -> setEmbed(ctx, p.st)
                   [] ctx.args[1] = "webhook" -> setWebhook(ctx, p.st)
                   [] OTHER -> Reply(ctx, p.st, "subcommand must be one of channel|contact|embed|webhook, see help command.")
    IN  gated(checkPrivilege(ctx, st0))

\* dbg~migrate
dbgMigrate(ctx, st) ==
    IF ctx.m.Author.ID # owner THEN Return(st, "nil")
    ELSE IF ctx.env.guildState = "err" THEN Return(st, "ErrStateNotFound")
    ELSE IF ctx.env.guildState = "nil"
    \* the reply's result is dropped, then guild.OwnerID dereferences nil
    THEN [Reply(ctx, st, "couldn't find the guild not gonna try") EXCEPT !.pnc = TRUE]
    ELSE LET created(w) ==
                 IF w.err # "nil" THEN Return(w.st, w.err)
                 ELSE Reply(ctx, w.st, "gotem")
         IN  created(CreateGuildConfig(ctx, st, ctx.m.GuildID,
                                       "u:" \o GuildOwner(ctx.m.GuildID)))

-----------------------------------------------------------------------------
(* The router *)

Ignore == [kind |-> "ignore", verb |-> "", args |-> <<>>]

Fault == [kind |-> "fault", verb |-> "", args |-> <<>>]

\* Split, the mux lookup and the argument slice
lookup(content, keys) ==
    LET split(parts) ==
            IF Len(parts) < 1 THEN Ignore
            ELSE IF parts[1] \notin keys THEN Ignore
            ELSE [kind |-> "call", verb |-> parts[1], args |-> Tail(parts)]
    IN  split(Split(content, " "))

\* a routing decision r with the mention string the message matched ("" when
\* it matched none) and the local variable content
Via(r, matched, content) ==
    [kind |-> r.kind, verb |-> r.verb, args |-> r.args, matched |-> matched,
     content |-> content]

\* content = m.Content[n:], then the lookup.  A slice out of range panics
\* before the deferred recover is installed.
strip(m, n, matched, keys) ==
    IF SliceFromOK(m.Content, n)
    THEN Via(lookup(SliceFrom(m.Content, n), keys), matched, SliceFrom(m.Content, n))
    ELSE Via(Fault, matched, "")

\* route, except that a bot's message is not set aside
route_noBotCheck(m) ==
    IF HasPrefix(m.Content, mentionPrefix)
    THEN strip(m, mentionPrefixLen, mentionPrefix, mux)
    ELSE IF HasPrefix(m.Content, prefix)
    THEN strip(m, prefixLen, "", mux)
    ELSE Via(Ignore, "", "")

\* part_000: the bot check, the prefix strip and the lookup
route(m) ==
    IF m.Author.Bot THEN Via(Ignore, "", "")
    ELSE IF HasPrefix(m.Content, mentionPrefix)
    THEN strip(m, mentionPrefixLen, mentionPrefix, mux)
    ELSE IF HasPrefix(m.Content, prefix)
    THEN strip(m, prefixLen, "", mux)
    ELSE Via(Ignore, "", "")

\* commands.go: the prefix is sliced off content, which is still ""
routeStub(m) ==
    LET content == ""
    IN  IF m.Author.Bot THEN Via(Ignore, "", "")
        ELSE IF HasPrefix(m.Content, mentionPrefix)
        THEN IF SliceFromOK(content, mentionPrefixLen)
             THEN Via(lookup(SliceFrom(content, mentionPrefixLen), muxStub),
                      mentionPrefix, SliceFrom(content, mentionPrefixLen))
             ELSE Via(Fault, mentionPrefix, "")
        ELSE IF HasPrefix(m.Content, prefix)
        THEN IF SliceFromOK(content, prefixLen)
             THEN Via(lookup(SliceFrom(content, prefixLen), muxStub),
                      "", SliceFrom(content, prefixLen))
             ELSE Via(Fault, "", "")
        ELSE Via(Ignore, "", "")

\* f(ctx) for the handler mux maps the verb to
Handle(verb, ctx, st) ==
    CASE verb = "help"        -> help(ctx, st)
      [] verb = "add"         -> add(ctx, st)
      [] verb = "remove"      -> remove(ctx, st)
      [] verb = "list"        -> list(ctx, st)
      [] verb = "set"         -> set(ctx, st)
      [] verb = "dbg~migrate" -> dbgMigrate(ctx, st)

\* commands.go: every handler in mux is nil, so the call panics
HandleStub(verb, ctx, st) == [st EXCEPT !.pnc = TRUE]

Observed(m, env, r, st) ==
    [event |-> "message", m |-> m, env |-> env, kind |-> r.kind, verb |-> r.verb,
     args |-> r.args, matched |-> r.matched, content |-> r.content,
     replies |-> st.replies, err |-> st.err, calls |-> st.calls,
     gate |-> st.gate, pnc |-> st.pnc,
     pre |-> [feeds |-> feeds, subs |-> subs, gcfg |-> gcfg]]

Msg(g, author, content, mentions) ==
    [GuildID |-> g, ChannelID |-> HomeChannel(g),
     Author |-> [ID |-> author, Bot |-> author = U_bot],
     Content |-> content, Mentions |-> mentions]

\* onMessageCreate (part_000) for message m, env the collaborators' outcomes
onMessageCreate(m, env) ==
    /\ ~crashed
    /\ build = "part_000"
    /\ \E r \in {route(m)} :
       \E st \in {IF r.kind = "call"
                  THEN Handle(r.verb, [m |-> m, args |-> r.args, env |-> env],
                              St0(feeds, subs, nextID, gcfg))
                  ELSE St0(feeds, subs, nextID, gcfg)} :
           /\ st.nextID = nextID \/ st.nextID <= MaxSubs + 1
           /\ feeds' = st.feeds
           /\ subs' = st.subs
           /\ nextID' = st.nextID
           /\ gcfg' = st.gcfg
           /\ crashed' = (r.kind = "fault")
           /\ last' = Observed(m, env, r, st)
    /\ UNCHANGED <<mentionPrefix, mentionPrefixLen, owner, build, readyPC, inflight>>

\* onMessageCreate (commands.go)
onMessageCreateStub(m, env) ==
    /\ ~crashed
    /\ build = "commands.go"
    /\ \E r \in {routeStub(m)} :
       \E st \in {IF r.kind = "call"
                  THEN HandleStub(r.verb, [m |-> m, args |-> r.args, env |-> env],
                                  St0(feeds, subs, nextID, gcfg))
                  ELSE St0(feeds, subs, nextID, gcfg)} :
           /\ crashed' = (r.kind = "fault")
           /\ last' = Observed(m, env, r, st)
    /\ UNCHANGED <<feeds, subs, nextID, gcfg, mentionPrefix, mentionPrefixLen,
                   owner, build, readyPC, inflight>>

\* onReady: appOK is whether s.Application("@me") succeeds (part_000 only)
onReady(appOK) ==
    /\ ~crashed
    /\ readyPC = "idle"
    /\ mentionPrefix' = "<@" \o U_self \o ">"
    /\ mentionPrefixLen' = Len(mentionPrefix')
    /\ IF build = "part_000"
       THEN IF appOK THEN owner' = U_operator /\ crashed' = FALSE
            ELSE owner' = owner /\ crashed' = TRUE
       ELSE UNCHANGED <<owner, crashed>>
    /\ last' = [last EXCEPT !.event = "ready"]
    /\ UNCHANGED <<feeds, subs, nextID, gcfg, build, readyPC, inflight>>

\* no dispatch is between its prefix test and its slice
NoFlight == [m |-> Msg("g1", U_none, "", <<>>), env |-> EnvOK, matched |-> ""]

\* onReady, line 49
onReady49 ==
    /\ ~crashed
    /\ build = "part_000"
    /\ readyPC = "idle"
    /\ mentionPrefix' = "<@" \o U_self \o ">"
    /\ readyPC' = "50"
    /\ UNCHANGED <<feeds, subs, nextID, gcfg, mentionPrefixLen, owner, build,
                   crashed, inflight, last>>

\* onReady, line 50
onReady50 ==
    /\ ~crashed
    /\ readyPC = "50"
    /\ mentionPrefixLen' = Len(mentionPrefix)
    /\ readyPC' = "52"
    /\ UNCHANGED <<feeds, subs, nextID, gcfg, mentionPrefix, owner, build,
                   crashed, inflight, last>>

\* onReady, lines 52 to 56
onReady52(appOK) ==
    /\ ~crashed
    /\ readyPC = "52"
    /\ IF appOK THEN owner' = U_operator /\ crashed' = FALSE
       ELSE owner' = owner /\ crashed' = TRUE
    /\ readyPC' = "idle"
    /\ last' = [last EXCEPT !.event = "ready"]
    /\ UNCHANGED <<feeds, subs, nextID, gcfg, mentionPrefix, mentionPrefixLen,
                   build, inflight>>

\* onMessageCreate, lines 61 to 66, for a message that matches mentionPrefix
onMessageCreate66(m, env) ==
    /\ ~crashed
    /\ build = "part_000"
    /\ inflight = NoFlight
    /\ ~m.Author.Bot
    /\ HasPrefix(m.Content, mentionPrefix)
    /\ inflight' = [m |-> m, env |-> env, matched |-> mentionPrefix]
    /\ UNCHANGED <<feeds, subs, nextID, gcfg, mentionPrefix, mentionPrefixLen,
                   owner, build, crashed, readyPC, last>>

\* onMessageCreate, line 67 and what follows it, for the dispatch in flight
onMessageCreate67 ==
    /\ ~crashed
    /\ inflight # NoFlight
    /\ \E r \in {strip(inflight.m, mentionPrefixLen, inflight.matched, mux)} :
       \E st \in {IF r.kind = "call"
                  THEN Handle(r.verb, [m |-> inflight.m, args |-> r.args,
                                       env |-> inflight.env],
                              St0(feeds, subs, nextID, gcfg))
                  ELSE St0(feeds, subs, nextID, gcfg)} :
           /\ st.nextID = nextID \/ st.nextID <= MaxSubs + 1
           /\ feeds' = st.feeds
           /\ subs' = st.subs
           /\ nextID' = st.nextID
           /\ gcfg' = st.gcfg
           /\ crashed' = (r.kind = "fault")
           /\ last' = Observed(inflight.m, inflight.env, r, st)
    /\ inflight' = NoFlight
    /\ UNCHANGED <<mentionPrefix, mentionPrefixLen, owner, build, readyPC>>

-----------------------------------------------------------------------------
(* Initial states *)

NoEvent ==
    [event |-> "init", m |-> Msg("g1", U_none, "", <<>>), env |-> EnvOK,
     kind |-> "ignore", verb |-> "", args |-> <<>>, matched |-> "",
     content |-> "", replies |-> <<>>,
     err |-> "nil", calls |-> <<>>, gate |-> "none", pnc |-> FALSE,
     pre |-> [feeds |-> <<>>, subs |-> <<>>, gcfg |-> <<>>]]

\* a guild's configuration before any command: contact the guild's owner
DefaultConfig(g) ==
    [Contact |-> "u:" \o GuildOwner(g), Embeds |-> TRUE, Webhooks |-> FALSE]

InitGlobals ==
    /\ mentionPrefix = "<@0>"
    /\ mentionPrefixLen = Len("<@0>")
    /\ owner = "<@0>"
    /\ crashed = FALSE
    /\ readyPC = "idle"
    /\ inflight = NoFlight
    /\ last = NoEvent

Init ==
    /\ feeds = <<>>
    /\ subs = <<>>
    /\ nextID = 1
    /\ gcfg = [g \in Guilds |-> DefaultConfig(g)]
    /\ build = "part_000"
    /\ InitGlobals

-----------------------------------------------------------------------------
(* Spec: subscription commands from two guilds, collaborators succeeding *)

IDs == 1..MaxSubs

Authors == {U_admin, U_plain}

Cmds ==
    {"add u1", "add u1 <#7>", "set channel 1", "set channel 1 <#7>",
     "set embed off 1", "set embed inherit 1", "set webhook on 1"}
        \cup {"remove " \o Itoa(i) : i \in IDs}

Inbound == {Msg(g, a, prefix \o c, <<>>) : g \in Guilds, a \in Authors, c \in Cmds}

Next == \E m \in Inbound : onMessageCreate(m, EnvOK)

Spec == Init /\ [][Next]_vars

-----------------------------------------------------------------------------
(* SpecAdd: add and remove only *)

CmdsAdd ==
    {"add u1", "add u1 <#7>", "add u2", "add", "add u1 seven"}
        \cup {"remove " \o Itoa(i) : i \in IDs}

InboundAdd == {Msg(g, a, prefix \o c, <<>>) : g \in Guilds, a \in Authors, c \in CmdsAdd}

NextAdd == \E m \in InboundAdd : onMessageCreate(m, EnvOK)

SpecAdd == Init /\ [][NextAdd]_vars

-----------------------------------------------------------------------------
(* SpecGuild: guild-wide settings and the contact *)

CmdsGuild ==
    {"set embed on", "set embed off", "set embed inherit", "set embed maybe",
     "set webhook on", "set webhook off", "set webhook inherit", "set webhook",
     "list", "help"}

InboundGuild ==
    {Msg(g, a, prefix \o c, <<>>) : g \in Guilds, a \in Authors, c \in CmdsGuild}

NextGuild == \E m \in InboundGuild : onMessageCreate(m, EnvOK)

SpecGuild == Init /\ [][NextGuild]_vars

-----------------------------------------------------------------------------
(* SpecContact: set contact, with and without user mentions on the message *)

ContactTokens == {"<#7>", "42", "bob", "<@33>", "x<#7>y"}

MentionLists == {<<>>, <<U_plain, U_admin>>}

InboundContact ==
    {Msg(g, U_admin, prefix \o "set contact " \o t, ms) :
         g \in Guilds, t \in ContactTokens, ms \in MentionLists}

NextContact == \E m \in InboundContact : onMessageCreate(m, EnvOK)

SpecContact == Init /\ [][NextContact]_vars

-----------------------------------------------------------------------------
(* SpecFaults: one collaborator call failing per dispatch *)

RepoCalls ==
    {"GetOrCreateFeed", "AddSubscription", "GetSubscription", "DestroySubscription",
     "ModifySubscriptionChannel", "GetGuildConfig", "GetSubscriptions",
     "ModifyGuildEmbeds"}

Envs ==
    {EnvOK,
     [EnvOK EXCEPT !.sendOK = FALSE],
     [EnvOK EXCEPT !.memberCached = FALSE],
     [EnvOK EXCEPT !.memberCached = FALSE, !.memberLive = FALSE],
     [EnvOK EXCEPT !.roleCached = FALSE],
     [EnvOK EXCEPT !.roleCached = FALSE, !.roleLive = FALSE]}
        \cup {[EnvOK EXCEPT !.repoFail = c] : c \in RepoCalls}

CmdsFaults ==
    {"add u1", "remove 1", "set channel 1 <#7>", "set embed off", "list", "help"}

InboundFaults == {Msg("g1", U_admin, prefix \o c, <<>>) : c \in CmdsFaults}

NextFaults == \E m \in InboundFaults, e \in Envs : onMessageCreate(m, e)

SpecFaults == Init /\ [][NextFaults]_vars

-----------------------------------------------------------------------------
(* SpecRouter: both source variants of the router, any message *)

Contents ==
    {"", "hello", "/feed:", "/feed:help", "/feed:Help", "/feed: help",
     "/feed:nope", "/feed:helpme", "/feed:list", "/feed:dbg~migrate", "<@0>help",
     "<@57>help", "<@57> help", "<@57>"}

EnvsRouter == {[EnvOK EXCEPT !.guildState = x] : x \in {"ok", "err", "nil"}}

InboundRouter ==
    {Msg("g1", a, c, <<>>) : a \in {U_admin, U_bot, U_operator}, c \in Contents}

InitRouter ==
    /\ feeds = <<>>
    /\ subs = <<>>
    /\ nextID = 1
    /\ gcfg = [g \in Guilds |-> DefaultConfig(g)]
    /\ build \in {"part_000", "commands.go"}
    /\ InitGlobals

NextRouter ==
    \/ \E m \in InboundRouter, e \in EnvsRouter : onMessageCreate(m, e)
    \/ \E m \in InboundRouter, e \in EnvsRouter : onMessageCreateStub(m, e)
    \/ \E appOK \in BOOLEAN : onReady(appOK)

SpecRouter == InitRouter /\ [][NextRouter]_vars

-----------------------------------------------------------------------------
(* SpecList: list over any repository content of up to MaxRows rows *)

RECURSIVE Rep(_, _)
Rep(c, n) ==
    IF n = 0 THEN ""
    ELSE IF n % 2 = 0 THEN Rep(c \o c, n \div 2)
    ELSE c \o Rep(c \o c, n \div 2)

\* feed URIs: a short one, one that fills a reply with a second of its kind,
\* and one that fills a reply on its own
ListURIs == <<"https://example.com/feed.xml", Rep("a", 880), Rep("b", 1790)>>

ListRows(n) ==
    [1..n -> [ID : {0}, GuildID : {"g1"}, ChannelID : {"7"}, FeedID : 1..Len(ListURIs),
              Embeds : {NullBool(FALSE, FALSE), NullBool(TRUE, TRUE), NullBool(FALSE, TRUE)},
              Webhooks : {NullBool(FALSE, FALSE)}]]

InitList ==
    /\ feeds = ListURIs
    /\ \E n \in 0..MaxRows : \E rows \in ListRows(n) :
          /\ subs = [i \in 1..n |-> [rows[i] EXCEPT !.ID = i,
                                                   !.ChannelID = "7" \o Itoa(i)]]
          /\ nextID = n + 1
    /\ gcfg = [g \in Guilds |-> DefaultConfig(g)]
    /\ build = "part_000"
    /\ InitGlobals

InboundList == {Msg(g, U_admin, prefix \o "list", <<>>) : g \in Guilds}

NextList == \E m \in InboundList : onMessageCreate(m, EnvOK)

SpecList == InitList /\ [][NextList]_vars

-----------------------------------------------------------------------------
(* SpecArgs: id-taking commands with malformed, unknown and foreign ids, *)
(* wrong argument counts and invalid tri-state tokens                     *)

CmdsArgs ==
    {"add u1",
     "remove", "remove x", "remove 9", "remove 1", "remove 1 2",
     "set channel", "set channel x", "set channel 9", "set channel 1",
     "set channel 1 <#7> now",
     "set embed", "set embed maybe 1", "set embed on x", "set embed on 9",
     "set embed on 1", "set embed on 1 now",
     "set webhook", "set webhook maybe", "set webhook off x", "set webhook off 9",
     "set webhook off 1"}

InboundArgs == {Msg(g, U_admin, prefix \o c, <<>>) : g \in Guilds, c \in CmdsArgs}

NextArgs == \E m \in InboundArgs : onMessageCreate(m, EnvOK)

SpecArgs == Init /\ [][NextArgs]_vars

-----------------------------------------------------------------------------
(* SpecTri: the tri-state setters, guild-wide and per subscription *)

CmdsTri ==
    {"add u1", "set embed on", "set embed off", "set webhook on", "set embed on 2"}
        \cup {"set " \o k \o " " \o v \o " 1" :
                  k \in {"embed", "webhook"}, v \in {"on", "off", "inherit"}}

\* guild g1 sends every command, guild g2 only adds
InboundTri ==
    {Msg("g1", U_admin, prefix \o c, <<>>) : c \in CmdsTri}
        \cup {Msg("g2", U_admin, prefix \o "add u1", <<>>)}

NextTri == \E m \in InboundTri : onMessageCreate(m, EnvOK)

SpecTri == Init /\ [][NextTri]_vars

-----------------------------------------------------------------------------
(* SpecReady: onReady statement by statement, concurrent with dispatches *)

ContentsReady ==
    {"hello", "/feed:help", "<@0>help", "<@0>", "<@57>help", "<@57>list", "<@57>"}

InboundReady == {Msg("g1", U_admin, c, <<U_self>>) : c \in ContentsReady}

NextReady ==
    \/ onReady49
    \/ onReady50
    \/ \E appOK \in BOOLEAN : onReady52(appOK)
    \/ \E m \in InboundReady : onMessageCreate(m, EnvOK)
    \/ \E m \in InboundReady : onMessageCreate66(m, EnvOK)
    \/ onMessageCreate67

SpecReady == Init /\ [][NextReady]_vars

-----------------------------------------------------------------------------
(* SpecChannel: channel arguments of add, set channel and set contact *)

ChannelTokens == {"<#7>", "x<#7>y", "<#7>>", "seven"}

CmdsChannel ==
    {"add u1"}
        \cup {"add u1 " \o t : t \in ChannelTokens}
        \cup {"set channel 1 " \o t : t \in ChannelTokens}

\* both guilds add and move subscriptions, guild g1 sets its contact
InboundChannel ==
    {Msg(g, U_admin, prefix \o c, <<>>) : g \in Guilds, c \in CmdsChannel}
        \cup {Msg("g1", U_admin, prefix \o "set contact " \o t, <<>>) :
                  t \in ChannelTokens}

NextChannel == \E m \in InboundChannel : onMessageCreate(m, EnvOK)

SpecChannel == Init /\ [][NextChannel]_vars

-----------------------------------------------------------------------------
(* SpecMention: set contact through the literal prefix and through the  *)
(* mention of the bot, which the platform lists among m.Mentions         *)

PlainNames == {"bob", "#general"}

MentionTokens == PlainNames \cup {"42", "<#7>"}

InboundMention ==
    {Msg(g, U_admin, prefix \o "set contact " \o t, <<>>) :
         g \in Guilds, t \in MentionTokens}
        \cup {Msg(g, U_admin, "<@" \o U_self \o ">set contact " \o t, <<U_self>>) :
                  g \in Guilds, t \in MentionTokens}

NextMention ==
    \/ \E m \in InboundMention : onMessageCreate(m, EnvOK)
    \/ onReady(TRUE)

SpecMention == Init /\ [][NextMention]_vars

-----------------------------------------------------------------------------
(* Vocabulary of the properties *)

\* a handler was invoked for the last message
Dispatched == last.event = "message" /\ last.kind = "call"

\* the last message was the literal prefix followed by text
Said(text) == last.m.Content = prefix \o text

\* the directory gives the member a role with the administrator bit (0x8)
HasAdminRole(userID) ==
    \E i \in 1..Len(MemberRoles(userID)) :
        (RolePermissions(MemberRoles(userID)[i]) \div 8) % 2 = 1

\* the replies of the handler proper: a leading denial of the gate set aside
Answer ==
    IF Len(last.replies) > 0 /\ last.replies[1] = adminOnly
    THEN Tail(last.replies)
    ELSE last.replies

RepositoryUnchanged ==
    /\ feeds = last.pre.feeds
    /\ subs = last.pre.subs
    /\ gcfg = last.pre.gcfg

NoMutatingCall == \A i \in 1..Len(last.calls) : last.calls[i] \notin MutatingCalls

NotInGuild(id) == "subscription #" \o Itoa(id) \o " does not exist in this guild."

-----------------------------------------------------------------------------
(* C1 *)

\* C1: a privileged verb dispatched for an author without an administrator
\* role, all collaborator calls succeeding, replies only the admin-required
\* message, makes no mutating repository call and leaves the repository as
\* it was.
C1_NonAdminChangesNothing ==
    (/\ Dispatched
     /\ last.verb \in {"add", "remove", "list", "set"}
     /\ ~HasAdminRole(last.m.Author.ID)
     /\ last.env = EnvOK)
        => /\ last.replies = <<adminOnly>>
           /\ NoMutatingCall
           /\ RepositoryUnchanged

-----------------------------------------------------------------------------
(* C2 *)

\* C2: with no collaborator failure checkPrivilege returns authorized = true
\* exactly when one of the member's roles has the administrator bit, and
\* returns no error.
C2_AuthorizedIffAdminRole ==
    (/\ Dispatched
     /\ last.gate # "none"
     /\ last.env = EnvOK)
        => (last.gate = "true") = HasAdminRole(last.m.Author.ID)

-----------------------------------------------------------------------------
(* C3 *)

\* the well-formed commands that name subscription id
IdCommands(id) ==
    {"remove " \o Itoa(id), "set channel " \o Itoa(id),
     "set channel " \o Itoa(id) \o " <#7>"}
        \cup {"set " \o k \o " " \o v \o " " \o Itoa(id) :
                  k \in {"embed", "webhook"}, v \in {"on", "off", "inherit"}}

\* the last message named, from its own guild, a subscription of another guild
CrossGuild(id) ==
    /\ Dispatched
    /\ \E c \in IdCommands(id) : Said(c)
    /\ id \in DOMAIN last.pre.subs
    /\ last.pre.subs[id].GuildID # last.m.GuildID

\* C3: an operation that names a subscription of another guild answers
\* "subscription #<id> does not exist in this guild.", returns no error and
\* leaves every subscription as it was, after any interleaving of dispatches
\* from the guilds.
C3_CrossGuildRejected ==
    \A id \in IDs :
        CrossGuild(id)
            => /\ Answer = <<NotInGuild(id)>>
               /\ last.err = "nil"
               /\ subs = last.pre.subs
               /\ NoMutatingCall

C3_Witness ==
    \E id \in IDs :
        /\ CrossGuild(id)
        /\ last.verb = "remove"
        /\ HasAdminRole(last.m.Author.ID)
        /\ last.replies = <<NotInGuild(id)>>
        /\ Cardinality(DOMAIN subs) > 1

-----------------------------------------------------------------------------
(* C4 *)

\* the last message was set embed|webhook <t> ... with t a tri-state token
TriToken(t) ==
    /\ Dispatched
    /\ last.verb = "set"
    /\ Len(last.args) >= 2
    /\ last.args[1] \in {"embed", "webhook"}
    /\ last.args[2] = t

\* C4: formatting with fmtBool what the setter's parser makes of a token t in
\* {on, off, inherit} gives t back.
C4_TriStateRoundTrip ==
    \A t \in {"on", "off", "inherit"} :
        TriToken(t) => fmtBool(parseTri(t).val) = t

-----------------------------------------------------------------------------
(* C5 *)

InheritRefused == "'inherit' is only a valid flag on overwrites, please specify on|off"

\* the last message was set embed inherit or set webhook inherit, no id
GuildInherit ==
    /\ Dispatched
    /\ Said("set embed inherit") \/ Said("set webhook inherit")

\* C5: set <setting> inherit without a subscription id is refused with the
\* inherit-is-for-overwrites reply, makes no Modify* call and leaves the
\* GuildConfig as it was; every guild default is a definite boolean.
C5_GuildInheritRejected ==
    /\ GuildInherit
           => /\ Answer = <<InheritRefused>>
              /\ NoMutatingCall
              /\ gcfg = last.pre.gcfg
    /\ \A g \in Guilds : gcfg[g].Embeds \in BOOLEAN /\ gcfg[g].Webhooks \in BOOLEAN

C5_Witness ==
    /\ GuildInherit
    /\ Said("set embed inherit")
    /\ last.replies = <<InheritRefused>>
    /\ gcfg[last.m.GuildID].Embeds
    /\ \E g \in Guilds : ~gcfg[g].Embeds

-----------------------------------------------------------------------------
(* C6 *)

\* position of the first call of the given name in the last dispatch
FirstCall(name) ==
    CHOOSE k \in 1..Len(last.calls) :
        last.calls[k] = name /\ \A j \in 1..(k - 1) : last.calls[j] # name

Deleted(id) == "subscription #" \o Itoa(id) \o " has been deleted."

\* C6: when a repository call of a handler fails, the handler returns that
\* error and sends no reply after the failure; remove says "has been deleted"
\* only if DestroySubscription succeeded and the subscription is gone.
C6_RepositoryErrorPropagates ==
    /\ (/\ Dispatched
        /\ \E k \in 1..Len(last.calls) : last.calls[k] = last.env.repoFail)
           => /\ last.err = "ErrInfra"
              /\ \A j \in (FirstCall(last.env.repoFail) + 1)..Len(last.calls) :
                     last.calls[j] # "Reply"
    /\ \A id \in IDs :
           (/\ Dispatched
            /\ last.verb = "remove"
            /\ \E k \in 1..Len(last.replies) : last.replies[k] = Deleted(id))
               => /\ last.env.repoFail # "DestroySubscription"
                  /\ id \notin DOMAIN subs

-----------------------------------------------------------------------------
(* C7 *)

\* C7: whatever the message and whatever the handler does, onMessageCreate
\* returns normally in both source variants: no runtime fault escapes it.
C7_NoFaultEscapesRouter == last.event = "message" => ~crashed

-----------------------------------------------------------------------------
(* C8 *)

RECURSIVE ConcatAll(_)
ConcatAll(texts) ==
    IF Len(texts) = 0 THEN "" ELSE Head(texts) \o ConcatAll(Tail(texts))

\* the listing of guild g over the repository as it was before the dispatch:
\* the header, then one row per subscription of g in id order
FullListing(g) ==
    LET ids == SortedIDs({i \in DOMAIN last.pre.subs : last.pre.subs[i].GuildID = g})
    IN  listHeader(last.pre.gcfg[g])
            \o ConcatAll([k \in 1..Len(ids) |->
                   listRow([ID |-> ids[k],
                            ChannelID |-> last.pre.subs[ids[k]].ChannelID,
                            URI |-> last.pre.feeds[last.pre.subs[ids[k]].FeedID],
                            Embeds |-> last.pre.subs[ids[k]].Embeds,
                            Webhooks |-> last.pre.subs[ids[k]].Webhooks])])

Listed ==
    /\ Dispatched
    /\ last.verb = "list"
    /\ HasAdminRole(last.m.Author.ID)
    /\ last.env = EnvOK

\* C8: the replies of one list invocation, concatenated in order, are the
\* full listing: the header, then each subscription's row once, in
\* repository order.
C8_ListConcatenation ==
    Listed => /\ ConcatAll(last.replies) = FullListing(last.m.GuildID)
              /\ last.err = "nil"

C8_Witness ==
    /\ Listed
    /\ Len(last.replies) >= 3
    /\ Cardinality(DOMAIN subs) >= 3

-----------------------------------------------------------------------------
(* C9 *)

\* the whole token is a channel mention <#digits>
IsChannelMention(t) ==
    /\ Len(t) >= 4
    /\ SubSeq(t, 1, 2) = "<#"
    /\ Ch(t, Len(t)) = ">"
    /\ \A k \in 3..(Len(t) - 1) : Ch(t, k) \in Digits

IsInteger(t) == Len(t) > 0 /\ \A k \in 1..Len(t) : Ch(t, k) \in Digits

\* the last message was set contact <t>, handled with every call succeeding
ContactSet(t) ==
    /\ Dispatched
    /\ Said("set contact " \o t)
    /\ HasAdminRole(last.m.Author.ID)
    /\ last.env = EnvOK

\* C9: set contact stores "c:"+digits for a channel-mention token even when
\* the message carries user mentions; otherwise "u:"+ the first mentioned
\* user when there is one, even for an integer token; otherwise "u:"+token
\* for an integer token.
C9_ContactPrecedence ==
    \A t \in ContactTokens :
        ContactSet(t)
            => LET stored == gcfg[last.m.GuildID].Contact
               IN  IF IsChannelMention(t)
                   THEN stored = "c:" \o SubSeq(t, 3, Len(t) - 1)
                   ELSE IF Len(last.m.Mentions) > 0
                   THEN stored = "u:" \o last.m.Mentions[1]
                   ELSE IsInteger(t) => stored = "u:" \o t

-----------------------------------------------------------------------------
(* C10 *)

\* the channel an add command of the model's vocabulary targets
AddChannel(c) == IF c = "add u1 <#7>" THEN "7" ELSE HomeChannel(last.m.GuildID)

\* the subscriptions of the repository before the dispatch that already bind
\* the feed of command c (add <uri> ...) to the channel c targets, in the
\* message's guild
Existing(c) ==
    {i \in DOMAIN last.pre.subs :
        /\ last.pre.feeds[last.pre.subs[i].FeedID] = SubSeq(c, 5, 6)
        /\ last.pre.subs[i].ChannelID = AddChannel(c)
        /\ last.pre.subs[i].GuildID = last.m.GuildID}

Readded(c) ==
    /\ Dispatched
    /\ Said(c)
    /\ HasAdminRole(last.m.Author.ID)
    /\ Existing(c) # {}

\* C10: there is at most one subscription per (feed URI, channel, guild); an
\* add whose triple exists answers "this subscription (#<id>) already
\* exists!" with the existing id, returns no error and leaves the
\* subscriptions as they were.
C10_NoDuplicateSubscription ==
    /\ \A i, j \in DOMAIN subs :
           (/\ feeds[subs[i].FeedID] = feeds[subs[j].FeedID]
            /\ subs[i].ChannelID = subs[j].ChannelID
            /\ subs[i].GuildID = subs[j].GuildID) => i = j
    /\ \A c \in {"add u1", "add u1 <#7>", "add u2"} :
           Readded(c)
               => /\ \E i \in Existing(c) :
                         last.replies = <<"this subscription (#" \o Itoa(i)
                                              \o ") already exists!">>
                  /\ last.err = "nil"
                  /\ subs = last.pre.subs

C10_Witness ==
    /\ Readded("add u1 <#7>")
    /\ Cardinality(DOMAIN subs) = 2
    /\ \E i \in DOMAIN subs : subs[i].GuildID # last.m.GuildID

-----------------------------------------------------------------------------
(* C11 *)

NotANumber == "'id' must be a number!"

NotFound == "could not find a subscription with that ID, check the list again?"

\* the last message was remove or set channel|embed|webhook, sent by an
\* administrator, every collaborator call succeeding
IdVerb ==
    /\ Dispatched
    /\ HasAdminRole(last.m.Author.ID)
    /\ last.env = EnvOK
    /\ \/ last.verb = "remove"
       \/ /\ last.verb = "set"
          /\ Len(last.args) >= 1
          /\ last.args[1] \in {"channel", "embed", "webhook"}

\* the number of arguments the usage line of the command allows
RightCount ==
    IF last.verb = "remove" THEN Len(last.args) = 1
    ELSE IF last.args[1] = "channel" THEN Len(last.args) \in {2, 3}
    ELSE Len(last.args) \in {2, 3}

\* the id token of the command, "" when it has none
IdToken ==
    IF last.verb = "remove" THEN last.args[1]
    ELSE IF last.args[1] = "channel" THEN last.args[2]
    ELSE IF Len(last.args) = 3 THEN last.args[3]
    ELSE ""

\* the arguments other than the id are well formed
OthersWellFormed ==
    IF last.verb = "remove" THEN TRUE
    ELSE IF last.args[1] = "channel"
    THEN Len(last.args) = 3 => IsChannelMention(last.args[3])
    ELSE last.args[2] \in {"on", "off", "inherit"}

OneCorrectiveReply ==
    /\ Len(last.replies) = 1
    /\ last.err = "nil"
    /\ NoMutatingCall
    /\ RepositoryUnchanged

\* the id rejections and the tri-state token rejection of the four commands
IdRejections ==
    /\ (IdVerb /\ RightCount /\ OthersWellFormed /\ IdToken # "")
           => /\ ~IsInteger(IdToken)
                  => last.replies = <<NotANumber>> /\ OneCorrectiveReply
              /\ (IsInteger(IdToken) /\ Atoi(IdToken).val \notin DOMAIN last.pre.subs)
                  => last.replies = <<NotFound>> /\ OneCorrectiveReply
              /\ (/\ IsInteger(IdToken)
                  /\ Atoi(IdToken).val \in DOMAIN last.pre.subs
                  /\ last.pre.subs[Atoi(IdToken).val].GuildID # last.m.GuildID)
                  => /\ last.replies = <<NotInGuild(Atoi(IdToken).val)>>
                     /\ OneCorrectiveReply
    /\ (/\ IdVerb
        /\ last.verb = "set"
        /\ last.args[1] \in {"embed", "webhook"}
        /\ Len(last.args) >= 2
        /\ last.args[2] \notin {"on", "off", "inherit"})
           => last.replies = <<"parameter must be one of on|off">> /\ OneCorrectiveReply

\* C11: for remove, set channel, set embed and set webhook sent by an
\* administrator, a non-numeric id, an unknown id and an id of another guild
\* are each answered by exactly one reply, the three texts differ, no error is
\* returned and nothing is mutated; a wrong argument count and an invalid
\* tri-state token are answered by one corrective reply and no mutation.
C11_ValidationRejections ==
    /\ IdRejections
    /\ \A id \in IDs :
           Cardinality({NotANumber, NotFound, NotInGuild(id)}) = 3
    /\ (IdVerb /\ ~RightCount) => OneCorrectiveReply

-----------------------------------------------------------------------------
(* C12 *)

\* the text of s before its first space
FirstToken(s) ==
    IF \A i \in 1..Len(s) : Ch(s, i) # " " THEN s
    ELSE SubSeq(s, 1, (CHOOSE i \in 1..Len(s) :
                           Ch(s, i) = " " /\ \A j \in 1..(i - 1) : Ch(s, j) # " ") - 1)

\* what follows the mention string or the literal prefix in text s
AfterPrefix(s) ==
    IF HasPrefix(s, mentionPrefix) THEN SubSeq(s, Len(mentionPrefix) + 1, Len(s))
    ELSE SubSeq(s, Len(prefix) + 1, Len(s))

\* the verbs registered in the source variant that is running
Registered == IF build = "part_000" THEN mux ELSE muxStub

\* the last message is not a command: a bot wrote it, it starts with neither
\* the mention string nor the literal prefix, nothing follows the prefix, or
\* the first token after the prefix is not a registered verb
Unaddressed ==
    /\ last.event = "message"
    /\ \/ last.m.Author.Bot
       \/ ~HasPrefix(last.m.Content, mentionPrefix) /\ ~HasPrefix(last.m.Content, prefix)
       \/ AfterPrefix(last.m.Content) = ""
       \/ FirstToken(AfterPrefix(last.m.Content)) \notin Registered

\* C12: a message written by a bot, or starting with neither the mention
\* string nor "/feed:", or with nothing after the prefix, or whose first token
\* after the prefix is not exactly a registered verb, invokes no handler, gets
\* no reply and causes no repository access.
C12_UnaddressedIgnored ==
    Unaddressed
        => /\ last.kind # "call"
           /\ build = "part_000" => last.kind = "ignore"
           /\ last.replies = <<>>
           /\ last.calls = <<>>
           /\ RepositoryUnchanged

C12_Witness ==
    /\ Unaddressed
    /\ build = "part_000"
    /\ last.m.Content = "/feed:Help"
    /\ ~last.m.Author.Bot
    /\ mentionPrefix = "<@" \o U_self \o ">"
    /\ last.kind = "ignore"

-----------------------------------------------------------------------------
(* C13 *)

Overrides == {NullBool(FALSE, FALSE), NullBool(TRUE, TRUE), NullBool(FALSE, TRUE)}

\* the listing of guild g with every flag resolved against the guild default
ResolvedListing(g) ==
    LET ids == SortedIDs({i \in DOMAIN last.pre.subs : last.pre.subs[i].GuildID = g})
        gc  == last.pre.gcfg[g]
    IN  listHeader(gc)
            \o ConcatAll([k \in 1..Len(ids) |->
                   listRow([ID |-> ids[k],
                            ChannelID |-> last.pre.subs[ids[k]].ChannelID,
                            URI |-> last.pre.feeds[last.pre.subs[ids[k]].FeedID],
                            Embeds |-> NullBool(resolve(last.pre.subs[ids[k]].Embeds,
                                                        gc.Embeds), TRUE),
                            Webhooks |-> NullBool(resolve(last.pre.subs[ids[k]].Webhooks,
                                                          gc.Webhooks), TRUE)])])

\* C13: the effective value of a setting is the guild default when the
\* override is inherit and the override's boolean otherwise, whatever the
\* default; the flags list reports for each subscription are these resolved
\* values.
C13_ListReportsResolved ==
    /\ \A o \in Overrides, d \in BOOLEAN :
           /\ ~o.Valid => resolve(o, d) = d
           /\ o.Valid => resolve(o, d) = o.Bool
    /\ Listed => ConcatAll(last.replies) = ResolvedListing(last.m.GuildID)

-----------------------------------------------------------------------------
(* C14 *)

\* the last message was add command c of an administrator, no subscription
\* binding c's feed to c's channel in the guild existing before it
AddedNew(c) ==
    /\ Dispatched
    /\ Said(c)
    /\ HasAdminRole(last.m.Author.ID)
    /\ Existing(c) = {}

Created(id) == "subscription #" \o Itoa(id) \o " created!"

\* C14: add <uri> <#C> of an administrator, when (uri, C, guild) has no
\* subscription, creates or reuses the feed of that URI, creates exactly one
\* subscription, bound to channel C (the digits of the mention), the guild of
\* the message and that feed, and replies "subscription #<id> created!" with
\* its id; without a channel argument the subscription is bound to the
\* channel the message was sent in.
C14_AddCreatesSubscription ==
    \A c \in {"add u1", "add u1 <#7>", "add u2"} :
        AddedNew(c)
            => LET uri == SubSeq(c, 5, 6)
                   new == DOMAIN subs \ DOMAIN last.pre.subs
                   had == \E k \in 1..Len(last.pre.feeds) : last.pre.feeds[k] = uri
               IN  /\ Cardinality(new) = 1
                   /\ \A i \in DOMAIN last.pre.subs :
                          i \in DOMAIN subs /\ subs[i] = last.pre.subs[i]
                   /\ feeds = IF had THEN last.pre.feeds ELSE Append(last.pre.feeds, uri)
                   /\ \A n \in new :
                          /\ subs[n].ID = n
                          /\ subs[n].ChannelID =
                                 (IF c = "add u1 <#7>" THEN "7" ELSE last.m.ChannelID)
                          /\ subs[n].GuildID = last.m.GuildID
                          /\ feeds[subs[n].FeedID] = uri
                          /\ last.replies = <<Created(n)>>
                   /\ last.err = "nil"

C14_Witness ==
    /\ AddedNew("add u1 <#7>")
    /\ feeds = last.pre.feeds
    /\ \E n \in DOMAIN subs \ DOMAIN last.pre.subs :
           /\ subs[n].ChannelID = "7"
           /\ last.replies = <<Created(n)>>
           /\ n > 1

-----------------------------------------------------------------------------
(* C15 *)

\* the column a tri-state setter writes
Column(k) == IF k = "embed" THEN "Embeds" ELSE "Webhooks"

\* the last message was set <k> <v> of an administrator
SetGuild(k, v) ==
    /\ Dispatched
    /\ Said("set " \o k \o " " \o v)
    /\ HasAdminRole(last.m.Author.ID)

\* the last message was set <k> <v> <id> of an administrator of the guild
\* that owns subscription id
SetOverwrite(k, v, id) ==
    /\ Dispatched
    /\ Said("set " \o k \o " " \o v \o " " \o Itoa(id))
    /\ HasAdminRole(last.m.Author.ID)
    /\ id \in DOMAIN last.pre.subs
    /\ last.pre.subs[id].GuildID = last.m.GuildID

\* C15: set embed <v> without an id changes only the Embeds default of the
\* guild of the message; set embed <v> <id> on a subscription of the guild
\* changes only that subscription's Overwrite.Embeds, to v (inherit
\* included), and leaves the guild defaults, the subscription's
\* Overwrite.Webhooks and channel, and every other subscription as they
\* were; the same for set webhook with Webhooks and Embeds exchanged.
C15_SetterWriteTarget ==
    \A k \in {"embed", "webhook"} :
        /\ \A v \in {"on", "off"} :
               SetGuild(k, v)
                   => /\ gcfg = [last.pre.gcfg EXCEPT
                                     ![last.m.GuildID][Column(k)] = (v = "on")]
                      /\ subs = last.pre.subs
                      /\ feeds = last.pre.feeds
        /\ \A v \in {"on", "off", "inherit"}, id \in IDs :
               SetOverwrite(k, v, id)
                   => /\ subs = [last.pre.subs EXCEPT
                                     ![id][Column(k)] = NullBool(v = "on", v # "inherit")]
                      /\ gcfg = last.pre.gcfg
                      /\ feeds = last.pre.feeds

C15_Witness ==
    /\ SetOverwrite("webhook", "inherit", 1)
    /\ Cardinality(DOMAIN subs) = 2
    /\ subs[1].Embeds = NullBool(FALSE, TRUE)
    /\ last.pre.subs[1].Webhooks = NullBool(TRUE, TRUE)
    /\ subs[1].Webhooks = NullBool(FALSE, FALSE)
    /\ ~gcfg[last.m.GuildID].Embeds

-----------------------------------------------------------------------------
(* C16 *)

\* C16: under any interleaving of onReady with dispatches, a dispatch that
\* matches the mention string strips exactly that string: the slice does not
\* fault and the text whose first token is looked up is the whole text that
\* follows the mention it matched.
C16_MentionStrippedWhole ==
    (last.event = "message" /\ last.matched # "")
        => /\ last.kind # "fault"
           /\ last.content = SubSeq(last.m.Content, Len(last.matched) + 1,
                                    Len(last.m.Content))

-----------------------------------------------------------------------------
(* C17 *)

\* the member is resolved from the cache first, from the live directory on a
\* miss: a hard error exactly when both fail
MemberFallback ==
    (Dispatched /\ last.gate # "none")
        => (last.err = "ErrGuildMember"
                <=> (~last.env.memberCached /\ ~last.env.memberLive))

\* C17: the permission check resolves the member and each role from the
\* cache first and from the live directory on a miss: it returns a hard
\* error for the member, or for a role, exactly when both the cache lookup
\* and the live query fail; a cache miss with the live query succeeding
\* gives no hard error.
C17_CacheFirstLiveFallback ==
    /\ MemberFallback
    /\ (Dispatched /\ last.gate # "none")
           => (last.err = "ErrStateNotFound"
                   <=> /\ last.env.memberCached \/ last.env.memberLive
                       /\ MemberRoles(last.m.Author.ID) # <<>>
                       /\ ~last.env.roleCached
                       /\ ~last.env.roleLive)

-----------------------------------------------------------------------------
(* C18 *)

UseMention == "when specifying a channel ID, please use a #channel mention!"

\* C18: a channel argument of add, set channel or set contact is taken only
\* when the whole token is <#digits>: every stored subscription channel and
\* every stored contact "c:"+x is made of digits only, and add or set channel
\* with a token that is not a whole channel mention answers with the
\* channel-mention reply and changes nothing.
C18_ChannelArgumentWhole ==
    /\ \A i \in DOMAIN subs : IsInteger(subs[i].ChannelID)
    /\ \A g \in Guilds :
           HasPrefix(gcfg[g].Contact, "c:")
               => IsInteger(SubSeq(gcfg[g].Contact, 3, Len(gcfg[g].Contact)))
    /\ \A t \in ChannelTokens :
           (/\ Dispatched
            /\ HasAdminRole(last.m.Author.ID)
            /\ Said("add u1 " \o t) \/ Said("set channel 1 " \o t)
            /\ ~IsChannelMention(t))
               => last.replies = <<UseMention>> /\ RepositoryUnchanged

\* every stored channel and channel contact that came from a whole
\* channel-mention token is the digits of that mention
WholeMentionStored ==
    \A t \in ChannelTokens :
        (/\ Dispatched
         /\ HasAdminRole(last.m.Author.ID)
         /\ IsChannelMention(t))
            => /\ Said("set contact " \o t)
                   => gcfg[last.m.GuildID].Contact = "c:" \o SubSeq(t, 3, Len(t) - 1)
               /\ (Said("add u1 " \o t) /\ subs # last.pre.subs)
                   => \E i \in DOMAIN subs \ DOMAIN last.pre.subs :
                          subs[i].ChannelID = SubSeq(t, 3, Len(t) - 1)

-----------------------------------------------------------------------------
(* C19 *)

ContactInvalid == "contact must be a user mention, user id, or channel mention; not a user name or channel name."

\* the last message was set contact <t> of an administrator, through either
\* prefix
ContactNamed(t) ==
    /\ Dispatched
    /\ last.verb = "set"
    /\ last.args = <<"contact", t>>
    /\ HasAdminRole(last.m.Author.ID)

\* a plain name is refused when the message mentions no user
PlainNameRefusedUnmentioned ==
    \A t \in PlainNames :
        (ContactNamed(t) /\ last.m.Mentions = <<>>)
            => /\ last.replies = <<ContactInvalid>>
               /\ gcfg = last.pre.gcfg

\* C19: set contact <token> with a plain user or channel name (no channel
\* mention, no user mention, no integer) is refused with the corrective reply
\* and leaves the guild's contact as it was, for every message carrying the
\* token, one invoked through the mention of the bot included.
C19_PlainNameRefused ==
    \A t \in PlainNames :
        ContactNamed(t)
            => /\ last.replies = <<ContactInvalid>>
               /\ last.err = "nil"
               /\ NoMutatingCall
               /\ gcfg = last.pre.gcfg

-----------------------------------------------------------------------------
(* C20 *)

\* C20: list starts a new reply before the accumulated text would exceed the
\* threshold of 1900 characters: no reply of list is longer than the
\* threshold, whatever the number of subscriptions and the length of a row.
C20_ReplyWithinThreshold ==
    Listed => \A k \in 1..Len(last.replies) : Len(last.replies[k]) <= listFlushLen

\* a reply that list flushes in its loop is longer than the threshold
FlushedOverThreshold ==
    Listed => \A k \in 1..(Len(last.replies) - 1) : Len(last.replies[k]) > listFlushLen

-----------------------------------------------------------------------------
(* C21 *)

\* C21: every reply list sends is non-empty, also when the last row of the
\* listing causes a flush: list never calls Reply with the empty string.
C21_NoEmptyReply ==
    Listed => \A k \in 1..Len(last.replies) : last.replies[k] # ""

\* only the reply after the loop can be empty, and only after a flush
OnlyLastReplyEmpty ==
    Listed => /\ \A k \in 1..(Len(last.replies) - 1) : last.replies[k] # ""
              /\ Len(last.replies) = 1 => last.replies[1] # ""

====
